---- MODULE Spec2Model ----
(***************************************************************************)
(* QUIC listener and connection dispatch of pingora-core                   *)
(* (protocols/l4/quic/mod.rs): the accept loop that demultiplexes          *)
(* datagrams to connection handles, the Incoming -> Established            *)
(* transitions of ConnectionHandle and Connection, Drop for Connection,    *)
(* and the per-connection TX pump.                                         *)
(***************************************************************************)
EXTENDS Integers, Sequences, FiniteSets, TLC

\* ------------------------------------------------------------- bounds
\* Connection values accept() may create in one behaviour.
MaxConns == 2
\* Datagrams the socket delivers to the listener in one behaviour.
MaxDgrams == 3
\* Ids queued on the drop channel at one time (the channel holds 1024).
MaxDropQueue == 1
\* Calls of Connection::establish on one Connection value.
MaxEstablishCalls == 2
\* Calls of TxBurst::max_send_burst whose stats are kept in burst_log.
MaxBurstLog == 2

\* ---------------------------------------------------------- constants
MAX_IPV6_BUF_SIZE == 65487
MAX_IPV6_QUIC_DATAGRAM_SIZE == 1350
HANDSHAKE_PACKET_BUFFER_SIZE == 64
CONNECTION_DROP_CHANNEL_SIZE == 1024

\* Destination connection ids a datagram header may carry: a client-chosen
\* id, and the id the listener derived from it (a client that has learned
\* the server-chosen id addresses the connection by it).
Dcids == {1, 11}
Types == {"Initial", "Short"}
Insts == 1..MaxConns

\* Listener::gen_cid: HMAC(key, hdr.dcid) truncated to MAX_CONN_ID_LEN.
\* Deterministic for the fixed key, not the identity, and (collisions being
\* negligible) injective: modelled as a shift into a disjoint range.
gen_cid(hdr) == hdr.dcid + 10

\* Every id that can key the registry.
CIDs == Dcids \cup {gen_cid([dcid |-> d]) : d \in Dcids}

NoHandle == [kind |-> "None", inst |-> 0]
NoDgram == [ok |-> FALSE, dcid |-> 0, ty |-> "None", sn |-> 0]
NoConn == [state |-> "None", connection_id |-> 0, dgram |-> NoDgram, est |-> 0]
NoRet == [kind |-> "None", inst |-> 0]
NoBurstIn == [stats |-> [sent |-> 0, lost |-> 0], q |-> 0, tick |-> 0]

VARIABLES
    connections,       \* Listener.connections: id -> ConnectionHandle
    drop_connections,  \* Listener.drop_connections: queued ids
    conn,              \* the Connection values accept() has returned
    nconn,             \* how many Connection values exist
    udp_chan,          \* per Incoming: the datagram channel udp_tx -> udp_rx
    resp_chan,         \* per Incoming: the response channel (capacity 1)
    published,         \* per Incoming: the outcome the handshake driver sent
    ecalls,            \* per Connection: calls of Connection::establish
    establish_ret,     \* per Connection: the last result of establish
    engine_rx,         \* per engine: datagrams received through recv
    rx_notify,         \* per engine: Notify state of rx_notify
    tx_notify,         \* per engine: Notify state of tx_notify
    nrecv,             \* datagrams received from the socket so far
    lpc,               \* accept loop: where it is suspended
    rx_buf,            \* accept loop: the datagram in rx_buf and its header
    conn_id,           \* accept loop: local conn_id
    udp_tx,            \* accept loop: local udp_tx (0 = None)
    recv_res,          \* accept loop: result of recv_connection this iteration
    accept_ret,        \* what this iteration of accept returned, if it did
    txpc,              \* per TX task: where start_tx is
    tx_aborted,        \* per TX task: JoinHandle::abort was called
    tx_stats,          \* per TX task: its TxBurst
    max_send_burst,    \* start_tx local
    total_write,       \* start_tx local
    finished_sending,  \* start_tx local
    tx_ret,            \* per TX task: what start_tx returned
    drop_log,          \* accept loop: the ids whose handle the last 'housekeep
                       \* removed (its debug lines)
    out,               \* per TX task: the sizes of the packets the engine
                       \* wrote into out[..total_write] in this cycle
    conn_send_res,     \* per TX task: what conn.send last returned in this
                       \* cycle of 'write ("None": not called yet)
    send_to_res,       \* per TX task: what send_to returned in this cycle
    tx_flushed,        \* per TX task: tx_flushed.notify_waiters() was called
                       \* in this cycle
    l_held,            \* accept loop: the mutex guards it holds
    tx_held,           \* per TX task: the mutex guards it holds
    burst_in,          \* the stats and send quantum of the last call of
                       \* TxBurst::max_send_burst made on its own
    burst_log          \* the stats of the first MaxBurstLog of those calls

lvars == <<nrecv, lpc, rx_buf, conn_id, udp_tx, recv_res, accept_ret>>
cvars == <<conn, nconn, udp_chan, resp_chan, published, ecalls, establish_ret>>
evars == <<engine_rx, rx_notify, tx_notify>>
tvars == <<txpc, tx_aborted, tx_stats, max_send_burst, total_write, finished_sending, tx_ret>>
bvars == <<burst_in, burst_log>>
kvars == <<l_held, tx_held>>
yvars == <<conn_send_res, send_to_res, tx_flushed>>
vars == <<connections, drop_connections, cvars, evars, lvars, drop_log, tvars, out,
          bvars, kvars, yvars>>

\* The mutexes (parking_lot::Mutex): the registry Listener.connections, the
\* receiver of the drop channel Listener.drop_connections.1, and the engine
\* of each connection. A guard is held from lock() to the end of the block
\* or statement that owns it.
RegistryLock == [lock |-> "connections", inst |-> 0]
DropRxLock == [lock |-> "drop_connections.1", inst |-> 0]
EngineLock(e) == [lock |-> "connection", inst |-> e]
Lock(l) == [op |-> "lock", l |-> l]
Unlock(l) == [op |-> "unlock", l |-> l]

\* The guards held after a sequence of lock and unlock events.
RECURSIVE Held(_, _)
Held(h, events) ==
    IF events = <<>> THEN h
    ELSE Held(IF Head(events).op = "lock" THEN h \cup {Head(events).l}
              ELSE h \ {Head(events).l}, Tail(events))

\* tokio::sync::Notify as the code uses it: notify_waiters() wakes the tasks
\* waiting now and stores no permit; only notify_one() (never called) would.
NewNotify == [calls |-> 0, permit |-> FALSE]
notify_waiters(n) == [n EXCEPT !.calls = @ + 1]

\* The effect of notify_waiters() on a task at position pc: a task parked in
\* notified().await becomes runnable again, unless it was aborted (an aborted
\* task is never polled again).
wake(pc, aborted) == IF pc = "parked" /\ ~aborted THEN "write" ELSE pc

\* TxBurst::new; loss_rate is kept as the exact fraction lost/sent.
TxBurst_new(max_send_udp_payload_size) ==
    [loss_lost |-> 0, loss_sent |-> 1,
     max_send_burst |-> MAX_IPV6_BUF_SIZE,
     max_datagram_size |-> max_send_udp_payload_size]

Init ==
    /\ connections = [c \in CIDs |-> NoHandle]
    /\ drop_connections = <<>>
    /\ conn = [n \in Insts |-> NoConn]
    /\ nconn = 0
    /\ udp_chan = [n \in Insts |-> <<>>]
    /\ resp_chan = [n \in Insts |-> "None"]
    /\ published = [n \in Insts |-> "None"]
    /\ ecalls = [n \in Insts |-> 0]
    /\ establish_ret = [n \in Insts |-> "None"]
    /\ engine_rx = [n \in Insts |-> <<>>]
    /\ rx_notify = [n \in Insts |-> NewNotify]
    /\ tx_notify = [n \in Insts |-> NewNotify]
    /\ nrecv = 0
    /\ lpc = "recv_from"
    /\ rx_buf = NoDgram
    /\ conn_id = 0
    /\ udp_tx = 0
    /\ recv_res = "None"
    /\ accept_ret = NoRet
    /\ txpc = [n \in Insts |-> "None"]
    /\ tx_aborted = [n \in Insts |-> FALSE]
    /\ tx_stats = [n \in Insts |-> TxBurst_new(MAX_IPV6_QUIC_DATAGRAM_SIZE)]
    /\ max_send_burst = [n \in Insts |-> 0]
    /\ total_write = [n \in Insts |-> 0]
    /\ finished_sending = [n \in Insts |-> FALSE]
    /\ tx_ret = [n \in Insts |-> "None"]
    /\ burst_in = NoBurstIn
    /\ burst_log = <<>>
    /\ drop_log = {}
    /\ out = [n \in Insts |-> <<>>]
    /\ conn_send_res = [n \in Insts |-> "None"]
    /\ send_to_res = [n \in Insts |-> "None"]
    /\ tx_flushed = [n \in Insts |-> FALSE]
    /\ l_held = {}
    /\ tx_held = [n \in Insts |-> {}]

\* --------------------------------------------------- the accept loop

\* Mutant: the drop channel is drained but nothing is removed.
housekeep_noop(reg, q) == reg

\* The 'housekeep loop: drain the drop channel, removing each drained id; an
\* id that is not in the registry leaves it unchanged.
RECURSIVE housekeep(_, _)
housekeep(reg, q) ==
    IF q = <<>> THEN reg
    ELSE housekeep([reg EXCEPT ![Head(q)] = NoHandle], Tail(q))

\* The ids for which conn.remove(&drop_id) in 'housekeep returned Some: a
\* handle was removed (logged at debug); the others are logged as errors.
RECURSIVE housekeep_log(_, _)
housekeep_log(reg, q) ==
    IF q = <<>> THEN {}
    ELSE (IF reg[Head(q)] # NoHandle THEN {Head(q)} ELSE {})
         \cup housekeep_log([reg EXCEPT ![Head(q)] = NoHandle], Tail(q))

\* The two lookups: conn_id is header.dcid when the registry has it, else the
\* derived id.
lookup_conn_id(reg, hdr) ==
    IF reg[hdr.dcid] # NoHandle THEN hdr.dcid ELSE gen_cid(hdr)

\* response_rx.try_recv() on the Incoming handle of instance n: a buffered
\* message first; else Empty while the IncomingState (the sender) lives.
try_recv(n) ==
    IF resp_chan[n] # "None" THEN resp_chan[n]
    ELSE IF conn[n].state = "Incoming" THEN "Empty"
    ELSE "Disconnected"

\* Mutant: the handle is left as it is.
ConnectionHandle_establish_noop(handle, e) == handle

\* ConnectionHandle::establish
ConnectionHandle_establish(handle, e) ==
    IF handle.kind = "Incoming" THEN [kind |-> "Established", inst |-> e]
    ELSE handle

\* connections.remove(&header.dcid) in the Ignored | Rejected and the
\* Disconnected branches.
remove_entry(reg, hdr, cid) == [reg EXCEPT ![hdr.dcid] = NoHandle]

\* Mutant: every response the driver sent is taken for Established.
branch_any_response_establishes(hdr, handle, resp) ==
    IF ~hdr.ok THEN "parse_error"
    ELSE IF handle.kind = "Established" THEN "recv"
    ELSE IF handle.kind = "Incoming" THEN
        IF resp \in {"Established", "Ignored", "Rejected"} THEN "recv_establish"
        ELSE IF resp = "Empty" THEN "forward"
        ELSE "disconnected"
    ELSE "miss"

\* Mutant: an empty response channel is taken for a disconnected one.
branch_empty_as_disconnected(hdr, handle, resp) ==
    IF ~hdr.ok THEN "parse_error"
    ELSE IF handle.kind = "Established" THEN "recv"
    ELSE IF handle.kind = "Incoming" THEN
        IF resp = "Established" THEN "recv_establish"
        ELSE IF resp \in {"Ignored", "Rejected"} THEN "remove"
        ELSE "disconnected"
    ELSE "miss"

\* The arm of the routing code a datagram takes, from its parsed header, the
\* handle the lookups found and what try_recv returned on an Incoming handle.
branch(hdr, handle, resp) ==
    IF ~hdr.ok THEN "parse_error"
    ELSE IF handle.kind = "Established" THEN "recv"
    ELSE IF handle.kind = "Incoming" THEN
        IF resp = "Established" THEN "recv_establish"
        ELSE IF resp \in {"Ignored", "Rejected"} THEN "remove"
        ELSE IF resp = "Empty" THEN "forward"
        ELSE "disconnected"
    ELSE "miss"

\* Mutant: the Ok arm is taken whatever recv_connection returned.
received_on_error(arm, recv_ok) == arm \in {"recv", "recv_establish"}

\* match Self::recv_connection(..): the Ok(_len) arm is taken, in the two
\* branches that call it, when the engine's recv succeeded.
received_ok(arm, recv_ok) == arm \in {"recv", "recv_establish"} /\ recv_ok

\* Mutant: the block of the registry guard extends over udp_tx.send.
accept_locks_send_in_block(arm, e, creates) ==
    <<Lock(DropRxLock), Lock(RegistryLock), Unlock(RegistryLock), Unlock(DropRxLock)>>
    \o (IF arm = "parse_error" THEN <<>>
        ELSE <<Lock(RegistryLock)>>
             \o (IF arm \in {"recv", "recv_establish"}
                 THEN <<Lock(EngineLock(e)), Unlock(EngineLock(e))>> ELSE <<>>)
             \o (IF arm = "forward" THEN <<>> ELSE <<Unlock(RegistryLock)>>)
             \o (IF creates THEN <<Lock(RegistryLock), Unlock(RegistryLock)>> ELSE <<>>))

\* The lock and unlock events of one iteration of 'read, up to its next
\* suspension point or return: the 'housekeep block takes the drop receiver
\* and the registry; the routing block takes the registry and, inside
\* recv_connection, the engine; the insert of a new handle takes the
\* registry again. Every continue, break and return leaves the blocks.
accept_locks(arm, e, creates) ==
    <<Lock(DropRxLock), Lock(RegistryLock), Unlock(RegistryLock), Unlock(DropRxLock)>>
    \o (IF arm = "parse_error" THEN <<>>
        ELSE <<Lock(RegistryLock)>>
             \o (IF arm \in {"recv", "recv_establish"}
                 THEN <<Lock(EngineLock(e)), Unlock(EngineLock(e))>> ELSE <<>>)
             \o <<Unlock(RegistryLock)>>
             \o (IF creates THEN <<Lock(RegistryLock), Unlock(RegistryLock)>> ELSE <<>>))

\* Mutant: a new Incoming is created from a datagram of any packet type.
creates_incoming_any_type(arm, hdr) == arm \in {"miss", "disconnected"}

\* The code after the routing block: reached on a miss and, because the
\* Disconnected arm does not continue 'read, after a disconnected response
\* channel; header.ty != Type::Initial continues, else the Incoming is built.
creates_incoming(arm, hdr) == arm \in {"miss", "disconnected"} /\ hdr.ty = "Initial"

\* One iteration of 'read up to its next suspension point or return: the
\* datagram d arrives; recv_ok is the outcome of the engine's recv if called.
accept(d, recv_ok) ==
    /\ lpc = "recv_from"
    /\ LET hdr == [d EXCEPT !.sn = nrecv + 1]
           reg == housekeep(connections, drop_connections)
           cid == IF hdr.ok THEN lookup_conn_id(reg, hdr) ELSE conn_id
           handle == IF hdr.ok THEN reg[cid] ELSE NoHandle
           resp == IF handle.kind = "Incoming" THEN try_recv(handle.inst) ELSE "NA"
           arm == branch(hdr, handle, resp)
           e == handle.inst
           received == received_ok(arm, recv_ok)
           \* the registry when the lock is released
           reg1 == CASE received -> [reg EXCEPT ![cid] = ConnectionHandle_establish(handle, e)]
                     [] arm \in {"remove", "disconnected"} -> remove_entry(reg, hdr, cid)
                     [] OTHER -> reg
           \* Disconnected does not continue 'read: it falls through, with
           \* the miss, to the packet type check and the creation code
           creates == creates_incoming(arm, hdr)
           n == nconn + 1
       IN
       /\ creates => nconn < MaxConns
       /\ nrecv' = nrecv + 1
       /\ rx_buf' = hdr
       /\ conn_id' = cid
       /\ drop_connections' = <<>>
       /\ recv_res' = IF arm \in {"recv", "recv_establish"}
                      THEN (IF recv_ok THEN "Ok" ELSE "Err") ELSE "None"
       /\ resp_chan' = IF arm \in {"recv_establish", "remove"}
                       THEN [resp_chan EXCEPT ![e] = "None"] ELSE resp_chan
       /\ engine_rx' = IF received
                       THEN [engine_rx EXCEPT ![e] = Append(@, hdr.sn)] ELSE engine_rx
       /\ rx_notify' = IF received
                       THEN [rx_notify EXCEPT ![e] = notify_waiters(@)] ELSE rx_notify
       /\ tx_notify' = IF received
                       THEN [tx_notify EXCEPT ![e] = notify_waiters(@)] ELSE tx_notify
       /\ txpc' = IF received
                  THEN [txpc EXCEPT ![e] = wake(@, tx_aborted[e])] ELSE txpc
       /\ connections' = IF creates
                         THEN [reg1 EXCEPT ![cid] = [kind |-> "Incoming", inst |-> n]]
                         ELSE reg1
       /\ conn' = IF creates
                  THEN [conn EXCEPT ![n] = [state |-> "Incoming", connection_id |-> cid,
                                            dgram |-> hdr, est |-> 0]]
                  ELSE conn
       /\ nconn' = IF creates THEN n ELSE nconn
       /\ lpc' = IF arm = "forward" THEN "udp_tx_send" ELSE "recv_from"
       /\ udp_tx' = IF arm = "forward" THEN e ELSE 0
       /\ accept_ret' = IF creates THEN [kind |-> "Ok", inst |-> n]
                        ELSE IF arm \in {"recv", "recv_establish"} /\ ~recv_ok
                        THEN [kind |-> "BrokenPipe", inst |-> 0]
                        ELSE NoRet
       /\ drop_log' = housekeep_log(connections, drop_connections)
       /\ l_held' = Held(l_held, accept_locks(arm, e, creates))
       /\ UNCHANGED <<udp_chan, published, ecalls, establish_ret, tx_aborted, tx_stats,
                      max_send_burst, total_write, finished_sending, tx_ret, tx_held>>
    /\ UNCHANGED bvars
    /\ UNCHANGED out
    /\ UNCHANGED yvars

\* The datagrams the socket may deliver.
Dgrams ==
    {[ok |-> TRUE, dcid |-> c, ty |-> t, sn |-> 0] : c \in Dcids, t \in Types}
    \cup {[ok |-> FALSE, dcid |-> 0, ty |-> "None", sn |-> 0]}

Accept ==
    /\ nrecv < MaxDgrams
    /\ \E d \in Dgrams, recv_ok \in BOOLEAN : accept(d, recv_ok)

\* udp_tx.send(UdpRecv {..}).await: completes when the channel has room, fails
\* when the receiver udp_rx is gone; either way continue 'read.
udp_tx_send ==
    /\ lpc = "udp_tx_send"
    /\ IF conn[udp_tx].state = "Incoming"
       THEN /\ Len(udp_chan[udp_tx]) < HANDSHAKE_PACKET_BUFFER_SIZE
            /\ udp_chan' = [udp_chan EXCEPT ![udp_tx] = Append(@, rx_buf)]
       ELSE udp_chan' = udp_chan
    /\ lpc' = "recv_from"
    /\ udp_tx' = 0
    /\ UNCHANGED <<connections, drop_connections, conn, nconn, resp_chan, published,
                   ecalls, establish_ret, evars, nrecv, rx_buf, conn_id, recv_res,
                   accept_ret, tvars>>
    /\ UNCHANGED bvars
    /\ UNCHANGED kvars
    /\ UNCHANGED out
    /\ UNCHANGED drop_log
    /\ UNCHANGED yvars

\* ------------------------------------------------ the handshake driver
\* (tls_handshake, the caller of accept: it drains udp_rx, sends the outcome
\* on response_tx and, on success, builds the EstablishedState, which spawns
\* the TX task, and calls Connection::establish.)

\* The Incoming handle of instance n is still in the registry, so the
\* receiving end of its response channel exists.
handle_alive(n) ==
    \E c \in CIDs : connections[c] = [kind |-> "Incoming", inst |-> n]

\* udp_rx.recv(): the driver takes the next buffered datagram.
handshake_recv(n) ==
    /\ conn[n].state = "Incoming"
    /\ udp_chan[n] # <<>>
    /\ udp_chan' = [udp_chan EXCEPT ![n] = Tail(@)]
    /\ UNCHANGED <<connections, drop_connections, conn, nconn, resp_chan, published,
                   ecalls, establish_ret, evars, lvars, tvars>>
    /\ UNCHANGED bvars
    /\ UNCHANGED kvars
    /\ UNCHANGED out
    /\ UNCHANGED drop_log
    /\ UNCHANGED yvars

\* response_tx.send(r): one outcome per connection; Established(e) comes with
\* the EstablishedState whose construction spawned the TX task, and is sent
\* when the driver has consumed every datagram its channel held.
handshake_respond(n, r) ==
    /\ conn[n].state = "Incoming"
    /\ published[n] = "None"
    /\ r = "Established" => udp_chan[n] = <<>>
    /\ published' = [published EXCEPT ![n] = r]
    /\ resp_chan' = IF handle_alive(n) THEN [resp_chan EXCEPT ![n] = r] ELSE resp_chan
    /\ txpc' = IF r = "Established" THEN [txpc EXCEPT ![n] = "write"] ELSE txpc
    /\ UNCHANGED <<connections, drop_connections, conn, nconn, udp_chan, ecalls,
                   establish_ret, evars, lvars, tx_aborted, tx_stats, max_send_burst,
                   total_write, finished_sending, tx_ret>>
    /\ UNCHANGED bvars
    /\ UNCHANGED kvars
    /\ UNCHANGED out
    /\ UNCHANGED drop_log
    /\ UNCHANGED yvars

\* A holder of the connection's drop_connection sender queues the id of a
\* dropped Established connection on the listener's drop channel.
drop_connection_send(n) ==
    /\ conn[n].state = "Dropped"
    /\ conn[n].est # 0
    /\ Len(drop_connections) < MaxDropQueue
    /\ Len(drop_connections) < CONNECTION_DROP_CHANNEL_SIZE
    /\ drop_connections' = Append(drop_connections, conn[n].connection_id)
    /\ UNCHANGED <<connections, cvars, evars, lvars, tvars>>
    /\ UNCHANGED bvars
    /\ UNCHANGED kvars
    /\ UNCHANGED out
    /\ UNCHANGED drop_log
    /\ UNCHANGED yvars

\* ------------------------------------------------------ Connection

\* Connection::establish(state): the debug_assert on udp_rx is compiled out
\* of release builds and is no part of the result. mem::replace drops the
\* IncomingState, and with it udp_rx (its buffered datagrams) and response_tx.
\* Mutant: the value is replaced whatever the connection is.
Connection_establish_always(c, state) ==
    [c EXCEPT !.state = "Established", !.est = state]

Connection_establish_value(c, state) ==
    IF c.state = "Incoming"
    THEN [c EXCEPT !.state = "Established", !.est = state]
    ELSE c

Connection_establish_result(c) ==
    IF c.state = "Incoming" THEN "Ok" ELSE "InternalError"

Connection_establish(n) ==
    /\ conn[n].state \in {"Incoming", "Established"}
    /\ published[n] = "Established"
    /\ ecalls[n] < MaxEstablishCalls
    /\ ecalls' = [ecalls EXCEPT ![n] = @ + 1]
    /\ establish_ret' = [establish_ret EXCEPT ![n] = Connection_establish_result(conn[n])]
    /\ conn' = [conn EXCEPT ![n] = Connection_establish_value(@, ecalls[n] + 1)]
    /\ udp_chan' = IF conn[n].state = "Incoming"
                   THEN [udp_chan EXCEPT ![n] = <<>>] ELSE udp_chan
    /\ UNCHANGED <<connections, drop_connections, nconn, resp_chan, published,
                   evars, lvars, tvars>>
    /\ UNCHANGED bvars
    /\ UNCHANGED kvars
    /\ UNCHANGED out
    /\ UNCHANGED drop_log
    /\ UNCHANGED yvars

\* tx_handle.is_finished()
is_finished(pc) == pc \in {"finished", "cancelled"}

\* Mutant: the drop leaves the TX task running.
Connection_drop_no_abort(c, pc, aborted) == aborted

\* impl Drop for Connection: what becomes of the TX task's abort flag.
Connection_drop_abort(c, pc, aborted) ==
    IF c.state = "Established" /\ ~is_finished(pc) THEN TRUE ELSE aborted

\* Dropping the Connection value: an Incoming drops its channel ends, an
\* Established aborts its TX task; nothing is sent on the drop channel.
Connection_drop(n) ==
    /\ conn[n].state \in {"Incoming", "Established"}
    /\ conn' = [conn EXCEPT ![n].state = "Dropped"]
    /\ udp_chan' = [udp_chan EXCEPT ![n] = <<>>]
    /\ tx_aborted' = [tx_aborted EXCEPT ![n] = Connection_drop_abort(conn[n], txpc[n], @)]
    /\ UNCHANGED <<connections, drop_connections, nconn, resp_chan, published, ecalls,
                   establish_ret, evars, lvars, txpc, tx_stats, max_send_burst,
                   total_write, finished_sending, tx_ret>>
    /\ UNCHANGED bvars
    /\ UNCHANGED kvars
    /\ UNCHANGED out
    /\ UNCHANGED drop_log
    /\ UNCHANGED yvars

\* ------------------------------------------------------ the TX pump

\* What the engine reports: Stats {sent, lost} and send_quantum.
StatsSet == {[sent |-> 1000, lost |-> 1], [sent |-> 2000, lost |-> 5]}
Quantums == {1000, 2700}
\* Sizes of the packets the engine's send writes.
PktSizes == {600, 1350}

\* loss_rate > self.loss_rate + 0.001 on the exact fractions; a zero
\* denominator is the f64 NaN (0/0, never greater) or infinity (lost/0).
loss_increased(ts, stats) ==
    IF stats.sent = 0 THEN stats.lost > 0 /\ ts.loss_sent # 0
    ELSE IF ts.loss_sent = 0 THEN FALSE
    ELSE 1000 * stats.lost * ts.loss_sent
            > 1000 * ts.loss_lost * stats.sent + stats.sent * ts.loss_sent

Max(a, b) == IF a > b THEN a ELSE b
Min(a, b) == IF a < b THEN a ELSE b

\* Mutant: the cap is scaled without the lower bound of 10 x MSS.
TxBurst_update_unclamped(ts, stats) ==
    IF loss_increased(ts, stats)
    THEN [ts EXCEPT !.max_send_burst = (ts.max_send_burst \div 4) * 3,
                    !.loss_lost = stats.lost,
                    !.loss_sent = stats.sent]
    ELSE ts

\* TxBurst::max_send_burst: the TxBurst after the call.
TxBurst_update(ts, stats) ==
    IF loss_increased(ts, stats)
    THEN [ts EXCEPT !.max_send_burst =
                        Max((ts.max_send_burst \div 4) * 3, ts.max_datagram_size * 10),
                    !.loss_lost = stats.lost,
                    !.loss_sent = stats.sent]
    ELSE ts

\* Mutant: the value is not rounded down to a multiple of max_datagram_size.
TxBurst_max_send_burst_unrounded(ts, stats, send_quantum) ==
    Min(send_quantum, TxBurst_update(ts, stats).max_send_burst)

\* TxBurst::max_send_burst: the value returned.
TxBurst_max_send_burst(ts, stats, send_quantum) ==
    (Min(send_quantum, TxBurst_update(ts, stats).max_send_burst)
        \div ts.max_datagram_size) * ts.max_datagram_size

\* The lock and unlock events of the block around conn.stats() and
\* conn.send_quantum(), and of the block around conn.send().
start_tx_locks(n) == <<Lock(EngineLock(n)), Unlock(EngineLock(n))>>

\* Where start_tx goes when the 'fill loop has ended with total tw.
after_fill(tw) == IF tw = 0 THEN "notified" ELSE "send_to"

\* Top of 'write: max_send_burst from the engine's stats and send quantum,
\* total_write = 0; the 'fill loop is skipped when max_send_burst is 0.
tx_write(n, stats, q) ==
    /\ txpc[n] = "write"
    /\ tx_stats' = [tx_stats EXCEPT ![n] = TxBurst_update(@, stats)]
    /\ max_send_burst' = [max_send_burst EXCEPT ![n] =
                              TxBurst_max_send_burst(tx_stats[n], stats, q)]
    /\ total_write' = [total_write EXCEPT ![n] = 0]
    /\ txpc' = [txpc EXCEPT ![n] =
                   IF 0 < max_send_burst'[n] THEN "fill" ELSE after_fill(0)]
    /\ out' = [out EXCEPT ![n] = <<>>]
    /\ conn_send_res' = [conn_send_res EXCEPT ![n] = "None"]
    /\ send_to_res' = [send_to_res EXCEPT ![n] = "None"]
    /\ tx_flushed' = [tx_flushed EXCEPT ![n] = FALSE]
    /\ tx_held' = [tx_held EXCEPT ![n] = Held(@, start_tx_locks(n))]
    /\ UNCHANGED <<connections, drop_connections, cvars, evars, lvars, tx_aborted,
                   finished_sending, tx_ret, l_held>>
    /\ UNCHANGED bvars
    /\ UNCHANGED drop_log

\* One pass of 'fill: conn.send(&mut out[total_write..max_send_burst]) returns
\* Ok with size bytes written, Done, or another error.
tx_fill(n, res, size) ==
    /\ txpc[n] = "fill"
    /\ CASE res = "Ok" ->
              /\ size <= max_send_burst[n] - total_write[n]
              /\ total_write' = [total_write EXCEPT ![n] = @ + size]
              /\ txpc' = [txpc EXCEPT ![n] =
                             IF total_write'[n] < max_send_burst[n]
                             THEN "fill" ELSE after_fill(total_write'[n])]
              /\ UNCHANGED <<finished_sending, tx_ret>>
         [] res = "Done" ->
              /\ finished_sending' = [finished_sending EXCEPT ![n] = TRUE]
              /\ txpc' = [txpc EXCEPT ![n] = after_fill(total_write[n])]
              /\ UNCHANGED <<total_write, tx_ret>>
         [] OTHER ->
              /\ txpc' = [txpc EXCEPT ![n] = "finished"]
              /\ tx_ret' = [tx_ret EXCEPT ![n] = "WriteError"]
              /\ UNCHANGED <<total_write, finished_sending>>
    /\ out' = IF res = "Ok" THEN [out EXCEPT ![n] = Append(@, size)] ELSE out
    /\ conn_send_res' = [conn_send_res EXCEPT ![n] = res]
    /\ UNCHANGED <<send_to_res, tx_flushed>>
    /\ tx_held' = [tx_held EXCEPT ![n] = Held(@, start_tx_locks(n))]
    /\ UNCHANGED <<connections, drop_connections, cvars, evars, lvars, tx_aborted,
                   tx_stats, max_send_burst, l_held>>
    /\ UNCHANGED bvars
    /\ UNCHANGED drop_log

\* Mutant: WouldBlock from the socket ends the task like any other error.
after_send_to_would_block_ends(res, fs) ==
    IF res = "Ok" THEN (IF fs THEN "notified" ELSE "write")
    ELSE "finished"

\* Where start_tx goes when send_to has returned res: after Ok, to the wait
\* on tx_notify if finished_sending is set, else to the top of 'write; after
\* WouldBlock, continue; after any other error, break 'write.
after_send_to(res, fs) ==
    IF res = "Ok" THEN (IF fs THEN "notified" ELSE "write")
    ELSE IF res = "WouldBlock" THEN "write"
    ELSE "finished"

\* send_to(..).await finds the socket not ready: the task suspends.
tx_send_to_suspend(n) ==
    /\ txpc[n] = "send_to"
    /\ txpc' = [txpc EXCEPT ![n] = "send_to_wait"]
    /\ UNCHANGED <<connections, drop_connections, cvars, evars, lvars, tx_aborted,
                   tx_stats, max_send_burst, total_write, finished_sending, tx_ret>>
    /\ UNCHANGED bvars
    /\ UNCHANGED kvars
    /\ UNCHANGED out
    /\ UNCHANGED drop_log
    /\ UNCHANGED yvars

\* send_to(..).await completes (at once, or when a suspended task that was
\* not aborted is polled again): Ok, WouldBlock (continue) or another error.
tx_send_to(n, res) ==
    /\ \/ txpc[n] = "send_to"
       \/ txpc[n] = "send_to_wait" /\ ~tx_aborted[n]
    /\ txpc' = [txpc EXCEPT ![n] = after_send_to(res, finished_sending[n])]
    /\ tx_ret' = IF res \in {"Ok", "WouldBlock"} THEN tx_ret
                 ELSE [tx_ret EXCEPT ![n] = "WriteError"]
    /\ send_to_res' = [send_to_res EXCEPT ![n] = res]
    \* if finished_sending { self.tx_flushed.notify_waiters(); .. }
    /\ tx_flushed' = [tx_flushed EXCEPT ![n] = res = "Ok" /\ finished_sending[n]]
    /\ UNCHANGED conn_send_res
    /\ UNCHANGED <<connections, drop_connections, cvars, evars, lvars, tx_aborted,
                   tx_stats, max_send_burst, total_write, finished_sending>>
    /\ UNCHANGED bvars
    /\ UNCHANGED kvars
    /\ UNCHANGED out
    /\ UNCHANGED drop_log

\* tx_notify.notified().await: returns at once on a stored permit, else the
\* task parks until a notify_waiters().
tx_notified(n) ==
    /\ txpc[n] = "notified"
    /\ IF tx_notify[n].permit
       THEN /\ tx_notify' = [tx_notify EXCEPT ![n].permit = FALSE]
            /\ txpc' = [txpc EXCEPT ![n] = "write"]
       ELSE /\ tx_notify' = tx_notify
            /\ txpc' = [txpc EXCEPT ![n] = "parked"]
    /\ UNCHANGED <<connections, drop_connections, cvars, engine_rx, rx_notify, lvars,
                   tx_aborted, tx_stats, max_send_burst, total_write,
                   finished_sending, tx_ret>>
    /\ UNCHANGED bvars
    /\ UNCHANGED kvars
    /\ UNCHANGED out
    /\ UNCHANGED drop_log
    /\ UNCHANGED yvars

\* An aborted task that is suspended is cancelled: it is never polled again.
tx_cancel(n) ==
    /\ txpc[n] \in {"send_to_wait", "parked"}
    /\ tx_aborted[n]
    /\ txpc' = [txpc EXCEPT ![n] = "cancelled"]
    /\ UNCHANGED <<connections, drop_connections, cvars, evars, lvars, tx_aborted,
                   tx_stats, max_send_burst, total_write, finished_sending, tx_ret>>
    /\ UNCHANGED bvars
    /\ UNCHANGED kvars
    /\ UNCHANGED out
    /\ UNCHANGED drop_log
    /\ UNCHANGED yvars

\* ----------------------------------------------------- specifications

\* The dispatch side: the accept loop, the handshake driver and the
\* Connection values. The TX tasks are spawned and aborted here but do not
\* step: no TX step writes a variable that the actions of Next read (they
\* write tvars and the permit of tx_notify only), so leaving them out removes
\* no state of the registry, the channels or the Connection values.
Next ==
    \/ Accept
    \/ udp_tx_send
    \/ \E n \in Insts : handshake_recv(n)
    \/ \E n \in Insts, r \in {"Established", "Ignored", "Rejected"} : handshake_respond(n, r)
    \/ \E n \in Insts : drop_connection_send(n)
    \/ \E n \in Insts : Connection_establish(n)
    \/ \E n \in Insts : Connection_drop(n)

Spec == Init /\ [][Next]_vars

\* The TX side: one connection whose handshake has completed (accept returned
\* it for the Initial datagram 1, the driver sent Established(e), spawning
\* the TX task, and called Connection::establish), with the accept loop, the
\* drops and the TX task running concurrently from there.
FirstDgram == [ok |-> TRUE, dcid |-> 1, ty |-> "Initial", sn |-> 1]

InitTx ==
    /\ connections = [c \in CIDs |-> IF c = gen_cid(FirstDgram)
                                     THEN [kind |-> "Incoming", inst |-> 1]
                                     ELSE NoHandle]
    /\ drop_connections = <<>>
    /\ conn = [n \in Insts |-> IF n = 1
                               THEN [state |-> "Established",
                                     connection_id |-> gen_cid(FirstDgram),
                                     dgram |-> FirstDgram, est |-> 1]
                               ELSE NoConn]
    /\ nconn = 1
    /\ udp_chan = [n \in Insts |-> <<>>]
    /\ resp_chan = [n \in Insts |-> IF n = 1 THEN "Established" ELSE "None"]
    /\ published = [n \in Insts |-> IF n = 1 THEN "Established" ELSE "None"]
    /\ ecalls = [n \in Insts |-> IF n = 1 THEN 1 ELSE 0]
    /\ establish_ret = [n \in Insts |-> IF n = 1 THEN "Ok" ELSE "None"]
    /\ engine_rx = [n \in Insts |-> <<>>]
    /\ rx_notify = [n \in Insts |-> NewNotify]
    /\ tx_notify = [n \in Insts |-> NewNotify]
    /\ nrecv = 1
    /\ lpc = "recv_from"
    /\ rx_buf = FirstDgram
    /\ conn_id = gen_cid(FirstDgram)
    /\ udp_tx = 0
    /\ recv_res = "None"
    /\ accept_ret = [kind |-> "Ok", inst |-> 1]
    /\ txpc = [n \in Insts |-> IF n = 1 THEN "write" ELSE "None"]
    /\ tx_aborted = [n \in Insts |-> FALSE]
    /\ tx_stats = [n \in Insts |-> TxBurst_new(MAX_IPV6_QUIC_DATAGRAM_SIZE)]
    /\ max_send_burst = [n \in Insts |-> 0]
    /\ total_write = [n \in Insts |-> 0]
    /\ finished_sending = [n \in Insts |-> FALSE]
    /\ tx_ret = [n \in Insts |-> "None"]
    /\ burst_in = NoBurstIn
    /\ burst_log = <<>>
    /\ drop_log = {}
    /\ out = [n \in Insts |-> <<>>]
    /\ conn_send_res = [n \in Insts |-> "None"]
    /\ send_to_res = [n \in Insts |-> "None"]
    /\ tx_flushed = [n \in Insts |-> FALSE]
    /\ l_held = {}
    /\ tx_held = [n \in Insts |-> {}]

\* The socket delivers up to MaxDgrams datagrams after the first one.
AcceptTx ==
    /\ nrecv < MaxDgrams + 1
    /\ \E d \in Dgrams, recv_ok \in BOOLEAN : accept(d, recv_ok)

NextTx ==
    \/ AcceptTx
    \/ udp_tx_send
    \/ \E n \in Insts : Connection_drop(n)
    \/ \E n \in Insts, st \in StatsSet, q \in Quantums : tx_write(n, st, q)
    \/ \E n \in Insts, res \in {"Ok", "Done", "Err"}, size \in PktSizes : tx_fill(n, res, size)
    \/ \E n \in Insts : tx_send_to_suspend(n)
    \/ \E n \in Insts, res \in {"Ok", "WouldBlock", "Err"} : tx_send_to(n, res)
    \/ \E n \in Insts : tx_notified(n)
    \/ \E n \in Insts : tx_cancel(n)

SpecTx == InitTx /\ [][NextTx]_vars

\* The state SpecTx starts in is a state of Spec.
InitTxUnreached == ~InitTx

\* TxBurst on its own: one TxBurst (that of TX task 1, never spawned here)
\* is called any number of times with any stats and send quantum. The loss
\* rates of BurstStats are 0.001 (the boundary from the initial rate 0),
\* 0.0025, 0.01, 0.05, 0.2, 0.5, lost/0 (infinite) and 0/0 (NaN); on these
\* the f64 comparison agrees with the comparison of the exact fractions.
BurstStats ==
    {[sent |-> 1000, lost |-> 1],
     [sent |-> 2000, lost |-> 5], [sent |-> 1000, lost |-> 10],
     [sent |-> 1000, lost |-> 50], [sent |-> 1000, lost |-> 200],
     [sent |-> 1000, lost |-> 500], [sent |-> 0, lost |-> 1],
     [sent |-> 0, lost |-> 0]}
BurstQuantums == {1000, 20000, 70000}

InitBurst ==
    /\ connections = [c \in CIDs |-> NoHandle]
    /\ drop_connections = <<>>
    /\ conn = [n \in Insts |-> NoConn]
    /\ nconn = 0
    /\ udp_chan = [n \in Insts |-> <<>>]
    /\ resp_chan = [n \in Insts |-> "None"]
    /\ published = [n \in Insts |-> "None"]
    /\ ecalls = [n \in Insts |-> 0]
    /\ establish_ret = [n \in Insts |-> "None"]
    /\ engine_rx = [n \in Insts |-> <<>>]
    /\ rx_notify = [n \in Insts |-> NewNotify]
    /\ tx_notify = [n \in Insts |-> NewNotify]
    /\ nrecv = 0
    /\ lpc = "recv_from"
    /\ rx_buf = NoDgram
    /\ conn_id = 0
    /\ udp_tx = 0
    /\ recv_res = "None"
    /\ accept_ret = NoRet
    /\ txpc = [n \in Insts |-> "None"]
    /\ tx_aborted = [n \in Insts |-> FALSE]
    /\ tx_stats = [n \in Insts |-> TxBurst_new(MAX_IPV6_QUIC_DATAGRAM_SIZE)]
    /\ max_send_burst = [n \in Insts |-> 0]
    /\ total_write = [n \in Insts |-> 0]
    /\ finished_sending = [n \in Insts |-> FALSE]
    /\ tx_ret = [n \in Insts |-> "None"]
    /\ burst_in = NoBurstIn
    /\ burst_log = <<>>
    /\ drop_log = {}
    /\ out = [n \in Insts |-> <<>>]
    /\ conn_send_res = [n \in Insts |-> "None"]
    /\ send_to_res = [n \in Insts |-> "None"]
    /\ tx_flushed = [n \in Insts |-> FALSE]
    /\ l_held = {}
    /\ tx_held = [n \in Insts |-> {}]

\* self.tx_stats.max_send_burst(stats, send_quantum): the TxBurst is updated
\* and the value returned is kept in max_send_burst.
TxBurst_call(stats, send_quantum) ==
    /\ tx_stats' = [tx_stats EXCEPT ![1] = TxBurst_update(@, stats)]
    /\ max_send_burst' = [max_send_burst EXCEPT ![1] =
                              TxBurst_max_send_burst(tx_stats[1], stats, send_quantum)]
    /\ burst_in' = [stats |-> stats, q |-> send_quantum, tick |-> 1 - burst_in.tick]
    /\ burst_log' = IF Len(burst_log) < MaxBurstLog
                    THEN Append(burst_log, stats) ELSE burst_log
    /\ UNCHANGED <<connections, drop_connections, cvars, evars, lvars, txpc,
                   tx_aborted, total_write, finished_sending, tx_ret>>
    /\ UNCHANGED kvars
    /\ UNCHANGED out
    /\ UNCHANGED drop_log
    /\ UNCHANGED yvars

NextBurst == \E st \in BurstStats, q \in BurstQuantums : TxBurst_call(st, q)

SpecBurst == InitBurst /\ [][NextBurst]_vars

\* ------------------------------------------------------------ claims

\* The registry as the routing code of an iteration sees it: after the drain
\* of the drop channel at the top of the iteration.
Reaped == housekeep(connections, drop_connections)

\* A step that is one iteration of the accept loop.
AcceptStep == nrecv' = nrecv + 1

HandleOf(kind, n) == [kind |-> kind, inst |-> n]

\* C1: every Connection::Incoming that accept returns has connection_id equal
\* to gen_cid of the datagram buffered in its dgram field, and when accept
\* returns, the registry holds exactly one Incoming handle for it, stored
\* under that derived id. (accept_ret is Ok exactly from the return of
\* accept until its next iteration, during which nothing else writes the
\* registry.) Stated as claimed; the code violates it.
C1_AcceptedIdIsDerived ==
    accept_ret.kind = "Ok" =>
        LET n == accept_ret.inst
            derived == gen_cid(conn[n].dgram)
        IN /\ conn[n].connection_id = derived
           /\ connections[derived] = HandleOf("Incoming", n)
           /\ Cardinality({c \in CIDs : connections[c].inst = n}) = 1

\* C2: after an Established Connection is dropped, the next iteration of the
\* accept loop removes its handle from the registry: no iteration that
\* follows the drop leaves the handle of the dropped connection in the
\* registry. Stated as claimed; the code violates it.
C2_DroppedIsReaped ==
    [][AcceptStep =>
        \A n \in Insts :
            (conn[n].state = "Dropped" /\ conn[n].est # 0)
                => \A c \in CIDs : connections'[c].inst # n]_vars

\* C3: when the listener reads Ignored or Rejected from the response channel
\* of an Incoming handle, the registry entry of that handle is removed in the
\* same iteration, whichever lookup found it. Stated as claimed; the code
\* violates it.
C3_RejectedIsRemoved ==
    [][\A n \in Insts :
        (resp_chan[n] \in {"Ignored", "Rejected"} /\ resp_chan'[n] = "None")
            => \A c \in CIDs : connections'[c].inst # n]_vars

\* The handle the routing code of this iteration finds for the datagram it
\* has just received (rx_buf'): the entry keyed by header.dcid if the reaped
\* registry has one, else the entry keyed by the derived id.
RoutedHandle ==
    IF ~rx_buf'.ok THEN NoHandle
    ELSE IF Reaped[rx_buf'.dcid] # NoHandle THEN Reaped[rx_buf'.dcid]
    ELSE Reaped[gen_cid(rx_buf')]

\* C4: when a datagram is routed to an Incoming handle whose handshake driver
\* has published Established(e) and the engine's recv of it succeeds, then in
\* that same iteration the datagram is delivered to e's engine and not to the
\* datagram channel, rx_notify and tx_notify are fired, the registry handle
\* becomes Established, and accept does not return a connection.
C4_EstablishedTransition ==
    [][\A n \in Insts :
        (/\ AcceptStep
         /\ RoutedHandle = HandleOf("Incoming", n)
         /\ resp_chan[n] = "Established"
         /\ recv_res' = "Ok")
        => /\ engine_rx'[n] = Append(engine_rx[n], rx_buf'.sn)
           /\ udp_chan' = udp_chan
           /\ lpc' = "recv_from" /\ udp_tx' = 0
           /\ rx_notify'[n].calls = rx_notify[n].calls + 1
           /\ tx_notify'[n].calls = tx_notify[n].calls + 1
           /\ connections'[conn_id'] = HandleOf("Established", n)
           /\ connections[conn_id'] = HandleOf("Incoming", n)
           /\ accept_ret' = NoRet
           /\ nconn' = nconn]_vars

\* C4 witness: the iteration just ended made the handle of a connection
\* Established while delivering its datagram to the engine.
C4_Witness ==
    \E n \in Insts :
        /\ conn_id \in CIDs
        /\ connections[conn_id] = HandleOf("Established", n)
        /\ recv_res = "Ok"
        /\ engine_rx[n] = <<rx_buf.sn>>
        /\ rx_notify[n].calls = 1 /\ tx_notify[n].calls = 1
        /\ published[n] = "Established" /\ resp_chan[n] = "None"

InOrder(q) == \A i \in 1..(Len(q) - 1) : q[i].sn < q[i + 1].sn

\* C5, as claimed: while a handle is Incoming and no handshake response has
\* been published, every further datagram whose dcid or derived id matches
\* the handle leaves the registry unchanged, makes accept return no new
\* connection and is pushed to that Incoming's datagram channel. The code
\* violates it.
C5_AlwaysForwarded ==
    [][\A n \in Insts :
        /\ (/\ AcceptStep /\ rx_buf'.ok
            /\ published[n] = "None"
            /\ \/ Reaped[rx_buf'.dcid] = HandleOf("Incoming", n)
               \/ Reaped[gen_cid(rx_buf')] = HandleOf("Incoming", n))
           => /\ connections' = Reaped
              /\ accept_ret'.kind # "Ok"
              /\ lpc' = "udp_tx_send" /\ udp_tx' = n
        /\ (/\ lpc = "udp_tx_send" /\ lpc' = "recv_from"
            /\ udp_tx = n /\ published[n] = "None")
           => udp_chan'[n] = Append(udp_chan[n], rx_buf)]_vars

\* C5, amended: when a datagram is routed to an Incoming handle (the entry
\* keyed by header.dcid, else the one keyed by the derived id) whose response
\* channel reads Empty (no response buffered, the Incoming Connection alive),
\* the iteration leaves the reaped registry unchanged, returns no connection
\* and suspends in the send to that Incoming's datagram channel; the send
\* appends the datagram (bytes, parsed header, recv_info) if udp_rx is still
\* open when it completes; the channel holds datagrams in arrival order.
C5_ForwardedWhileEmpty ==
    [][\A n \in Insts :
        /\ (/\ AcceptStep
            /\ RoutedHandle = HandleOf("Incoming", n)
            /\ resp_chan[n] = "None" /\ conn[n].state = "Incoming")
           => /\ connections' = Reaped
              /\ accept_ret' = NoRet /\ nconn' = nconn
              /\ lpc' = "udp_tx_send" /\ udp_tx' = n
              /\ udp_chan' = udp_chan /\ engine_rx' = engine_rx
        /\ (/\ lpc = "udp_tx_send" /\ lpc' = "recv_from"
            /\ udp_tx = n /\ conn[n].state = "Incoming")
           => /\ udp_chan' = [udp_chan EXCEPT ![n] = Append(@, rx_buf)]
              /\ connections' = connections
              /\ accept_ret' = accept_ret
        /\ InOrder(udp_chan'[n])]_vars

\* C5 witness: two datagrams were forwarded to a connection whose driver has
\* published nothing, and are buffered in its channel.
C5_Witness ==
    \E n \in Insts :
        /\ conn[n].state = "Incoming" /\ published[n] = "None"
        /\ Len(udp_chan[n]) = 2
        /\ udp_chan[n][2] = rx_buf
        /\ lpc = "recv_from"

\* C6, as claimed: a datagram the listener routes to an existing handle is
\* routed to the entry keyed by header.dcid if there is one, else to the entry
\* keyed by the derived id, and a datagram that is routed to a handle is not
\* also used to create a new Incoming. The code violates it.
C6_RoutedOrCreated ==
    [][(AcceptStep /\ RoutedHandle # NoHandle)
        => /\ conn_id' = IF Reaped[rx_buf'.dcid] # NoHandle
                         THEN rx_buf'.dcid ELSE gen_cid(rx_buf')
           /\ accept_ret'.kind # "Ok"
           /\ nconn' = nconn]_vars

C8_EstablishedTogether ==
    \A n \in Insts :
        conn[n].state \in {"Incoming", "Established"}
            => (conn[n].state = "Established"
                    <=> \E c \in CIDs : connections[c] = HandleOf("Established", n))

\* C8, amended: the registry handle of a connection is Established only if
\* the handshake driver published HandshakeResponse::Established for it and
\* the listener has read that response while routing a datagram that the
\* engine received; a call of Connection::establish leaves the registry as it
\* is, so a Connection value and its handle need not be Established together.
C8_HandleEstablishedByListener ==
    [][\A n \in Insts :
        /\ (\E c \in CIDs : connections'[c] = HandleOf("Established", n))
           => /\ published'[n] = "Established"
              /\ resp_chan'[n] = "None"
              /\ engine_rx'[n] # <<>>
        /\ ecalls'[n] # ecalls[n] => connections' = connections]_vars

\* C8 witness: a Connection value is Established, by a call of establish that
\* returned Ok, while its registry handle is still Incoming.
C8_Witness ==
    \E n \in Insts :
        /\ conn[n].state = "Established" /\ establish_ret[n] = "Ok"
        /\ connections[conn[n].connection_id] = HandleOf("Incoming", n)

\* C9: dropping an Established Connection whose TX task has not finished
\* aborts the task, and an aborted task that has reached a suspension point
\* (suspended in send_to or parked in the tx_notify wait) runs no further:
\* it starts no fill cycle, sends nothing and only ends cancelled; dropping
\* an Incoming Connection aborts nothing.
C9_DropAbortsTx ==
    [][\A n \in Insts :
        /\ (/\ conn[n].state = "Established" /\ conn'[n].state = "Dropped"
            /\ ~is_finished(txpc[n]))
           => tx_aborted'[n]
        /\ (conn[n].state = "Incoming" /\ conn'[n].state = "Dropped")
           => tx_aborted' = tx_aborted
        /\ (tx_aborted[n] /\ txpc[n] \in {"send_to_wait", "parked"})
           => /\ txpc'[n] \in {txpc[n], "cancelled"}
              /\ total_write'[n] = total_write[n]
              /\ max_send_burst'[n] = max_send_burst[n]
              /\ tx_stats'[n] = tx_stats[n]
              /\ tx_ret'[n] = tx_ret[n]
        /\ txpc[n] = "cancelled" => txpc'[n] = "cancelled"]_vars

\* C9 witness: the Established connection was dropped while its TX task was
\* running, and the task has ended cancelled.
C9_Witness ==
    \E n \in Insts :
        /\ conn[n].state = "Dropped" /\ conn[n].est # 0
        /\ tx_aborted[n] /\ txpc[n] = "cancelled"

\* C10, as claimed: a fire of tx_notify while the TX pump is not waiting is
\* remembered as one pending permit: whenever the listener delivers a datagram
\* to the engine of a connection whose running TX pump is not parked in the
\* tx_notify wait, tx_notify holds a permit afterwards. The code violates it.
C10_FireIsRemembered ==
    [][\A n \in Insts :
        (/\ tx_notify'[n].calls # tx_notify[n].calls
         /\ txpc[n] \in {"write", "fill", "send_to", "send_to_wait", "notified"})
        => tx_notify'[n].permit]_vars

\* A step that is one call of TxBurst::max_send_burst on its own.
BurstStep == burst_in'.tick # burst_in.tick

\* The stored loss rate of a is at most that of b (sent = 0 is infinite).
RateLeq(a, b) ==
    IF b.loss_sent = 0 THEN TRUE
    ELSE IF a.loss_sent = 0 THEN FALSE
    ELSE a.loss_lost * b.loss_sent <= b.loss_lost * a.loss_sent

\* C11: a call of TxBurst::max_send_burst that observes a loss rate exceeding
\* the stored one by more than 0.001 sets the stored cap to
\* max(floor(previous cap * 3/4), 10 * max_datagram_size) and the stored rate
\* to the observed one; any other call leaves both unchanged; and after the
\* calls with stats (1000, 1), (2000, 5) on a TxBurst built for 1350 the cap
\* is floor(65487 * 3/4). Stated as claimed; the code violates it.
C11_ShrinkByThreeQuarters ==
    [][BurstStep =>
        LET ts == tx_stats[1]
            st == burst_in'.stats
        IN /\ IF loss_increased(ts, st)
              THEN /\ tx_stats'[1].max_send_burst =
                          Max((ts.max_send_burst * 3) \div 4, 10 * ts.max_datagram_size)
                   /\ tx_stats'[1].loss_lost = st.lost
                   /\ tx_stats'[1].loss_sent = st.sent
              ELSE tx_stats'[1] = ts
           /\ (/\ ts.max_datagram_size = MAX_IPV6_QUIC_DATAGRAM_SIZE
               /\ burst_log' = <<[sent |-> 1000, lost |-> 1], [sent |-> 2000, lost |-> 5]>>
               /\ Len(burst_log) = 1)
                  => tx_stats'[1].max_send_burst = (MAX_IPV6_BUF_SIZE * 3) \div 4]_vars

\* C12: from one call of TxBurst::max_send_burst to the next the stored cap
\* never increases and is never below 10 * max_datagram_size, and the stored
\* loss rate never decreases.
C12_CapNeverGrows ==
    [][/\ tx_stats'[1].max_send_burst <= tx_stats[1].max_send_burst
       /\ tx_stats'[1].max_send_burst >= 10 * tx_stats'[1].max_datagram_size
       /\ RateLeq(tx_stats[1], tx_stats'[1])]_vars

\* C12 witness: losses have driven the cap down to its lower bound.
C12_Witness ==
    /\ burst_in.tick = 1
    /\ tx_stats[1].max_datagram_size = MAX_IPV6_QUIC_DATAGRAM_SIZE
    /\ tx_stats[1].max_send_burst = 10 * MAX_IPV6_QUIC_DATAGRAM_SIZE
    /\ tx_stats[1].loss_sent = 0

\* C13: the value TxBurst::max_send_burst returns is min(send_quantum, stored
\* cap after the update) rounded down to a multiple of max_datagram_size: a
\* multiple of it, at most send_quantum, at most MAX_IPV6_BUF_SIZE, and 0 when
\* send_quantum is smaller than max_datagram_size.
C13_ReturnsRoundedMin ==
    [][BurstStep =>
        LET r == max_send_burst'[1]
            q == burst_in'.q
            mds == tx_stats'[1].max_datagram_size
        IN /\ r = (Min(q, tx_stats'[1].max_send_burst) \div mds) * mds
           /\ r % mds = 0
           /\ r <= q
           /\ r <= MAX_IPV6_BUF_SIZE
           /\ q < mds => r = 0]_vars

\* C13 witness: a call with a send quantum above the shrunk cap returned the
\* cap rounded down, a value that is neither the quantum nor the cap.
C13_Witness ==
    /\ burst_in.tick = 1
    /\ burst_in.q > tx_stats[1].max_send_burst
    /\ tx_stats[1].max_send_burst < MAX_IPV6_BUF_SIZE
    /\ max_send_burst[1] > 0
    /\ max_send_burst[1] < tx_stats[1].max_send_burst

\* C14: an iteration in which the engine's recv returns an error (routing to
\* an Established handle, or to an Incoming handle whose response is
\* Established) returns an io error of kind BrokenPipe and no connection, and
\* leaves the handle it routed to in the registry as it was.
C14_RecvErrorIsBrokenPipe ==
    [][(AcceptStep /\ recv_res' = "Err") =>
        /\ accept_ret' = [kind |-> "BrokenPipe", inst |-> 0]
        /\ nconn' = nconn
        /\ conn' = conn
        /\ connections' = Reaped
        /\ connections'[conn_id'] # NoHandle
        /\ engine_rx' = engine_rx
        /\ lpc' = "recv_from"]_vars

\* C14 witness: recv failed on the datagram that found the Incoming handle
\* with the response Established; the handle is still Incoming.
C14_Witness ==
    /\ recv_res = "Err"
    /\ accept_ret.kind = "BrokenPipe"
    /\ conn_id \in CIDs
    /\ connections[conn_id].kind = "Incoming"
    /\ published[connections[conn_id].inst] = "Established"
    /\ resp_chan[connections[conn_id].inst] = "None"

\* C15: at every suspension point (socket.recv_from, udp_tx.send, send_to,
\* tx_notify.notified()) neither the accept loop nor a TX task holds an
\* engine lock, and the accept loop holds neither the registry lock nor the
\* lock of the drop-channel receiver.
C15_NoLockAcrossAwait ==
    /\ lpc \in {"recv_from", "udp_tx_send"} =>
          /\ RegistryLock \notin l_held
          /\ DropRxLock \notin l_held
          /\ \A e \in Insts : EngineLock(e) \notin l_held
    /\ \A n \in Insts :
          txpc[n] \in {"send_to", "send_to_wait", "notified", "parked"} =>
              \A e \in Insts : EngineLock(e) \notin tx_held[n]

\* C15 witness: the accept loop is suspended in udp_tx.send and the TX task,
\* which has taken the engine lock in this cycle, is suspended in send_to.
C15_Witness ==
    /\ lpc = "udp_tx_send"
    /\ txpc[1] = "send_to_wait"
    /\ total_write[1] > 0

\* C16: when a datagram is routed to an Incoming handle whose response channel
\* is disconnected (nothing buffered, the Incoming Connection gone), the
\* iteration removes the registry entry of that handle, creates no new
\* Incoming from the datagram and does not return, whatever the packet type.
\* Stated as claimed; the code violates it.
C16_DisconnectedIsDropped ==
    [][\A n \in Insts :
        (/\ AcceptStep
         /\ RoutedHandle = HandleOf("Incoming", n)
         /\ resp_chan[n] = "None" /\ conn[n].state # "Incoming")
        => /\ \A c \in CIDs : connections'[c].inst # n
           /\ \A c \in CIDs : connections'[c] \in {NoHandle, Reaped[c]}
           /\ accept_ret' = NoRet
           /\ nconn' = nconn
           /\ lpc' = "recv_from"
           /\ udp_chan' = udp_chan]_vars

\* A run of segments of size mds followed by at most one smaller segment.
GsoShaped(batch, mds) ==
    /\ \A i \in 1..(Len(batch) - 1) : batch[i] = mds
    /\ \A i \in 1..Len(batch) : batch[i] <= mds

\* C17: every batch the TX pump hands to send_to is a run of packets of size
\* max_datagram_size followed by at most one smaller packet: after the engine
\* has written a packet shorter than max_datagram_size nothing more is
\* appended to the batch. Stated as claimed; the code violates it.
C17_BatchIsGsoShaped ==
    \A n \in Insts :
        txpc[n] \in {"send_to", "send_to_wait"}
            => GsoShaped(out[n], tx_stats[n].max_datagram_size)

\* C18: whenever Connection::establish is called on an Incoming connection
\* its datagram channel is empty, and no datagram forwarded to a connection is
\* left stranded: the send of every datagram the listener forwards to a
\* connection that is Incoming or Established puts it in the channel, from
\* which the handshake driver consumes it. Stated as claimed; the code
\* violates it.
C18_NoStrandedDatagram ==
    [][\A n \in Insts :
        /\ (ecalls'[n] # ecalls[n] /\ conn[n].state = "Incoming")
               => udp_chan[n] = <<>>
        /\ (/\ lpc = "udp_tx_send" /\ lpc' = "recv_from" /\ udp_tx = n
            /\ conn[n].state \in {"Incoming", "Established"})
               => udp_chan'[n] = Append(udp_chan[n], rx_buf)]_vars

\* C19: a datagram that matches no registry entry, neither by header.dcid nor
\* by the derived id, and whose packet type is not Initial is dropped: the
\* registry is left as reaped and accept does not return; and the datagram
\* buffered in the dgram field of every Connection accept has returned is of
\* type Initial.
C19_NonInitialMissIsDropped ==
    [][/\ (/\ AcceptStep /\ rx_buf'.ok
           /\ RoutedHandle = NoHandle
           /\ rx_buf'.ty # "Initial")
          => /\ connections' = Reaped
             /\ accept_ret' = NoRet
             /\ nconn' = nconn /\ conn' = conn
             /\ lpc' = "recv_from" /\ udp_chan' = udp_chan
       /\ \A n \in Insts :
             conn'[n].state # "None"
                => conn'[n].dgram.ok /\ conn'[n].dgram.ty = "Initial"
       /\ accept_ret'.kind = "Ok" => rx_buf'.ty = "Initial"]_vars

\* C19 witness: a well-formed datagram that is not Initial arrived when the
\* registry had no entry for it, and accept went on to the next datagram.
C19_Witness ==
    /\ rx_buf.ok /\ rx_buf.ty = "Short"
    /\ nconn = 0
    /\ connections[rx_buf.dcid] = NoHandle
    /\ connections[gen_cid(rx_buf)] = NoHandle
    /\ accept_ret = NoRet
    /\ lpc = "recv_from"
    /\ nrecv = 2

\* The ids queued on the drop channel.
Drained == {drop_connections[i] : i \in 1..Len(drop_connections)}

C21_EndsOnlyWithWriteError ==
    [][\A n \in Insts :
        /\ (txpc'[n] = "finished" /\ txpc[n] # "finished")
           => /\ tx_ret'[n] = "WriteError"
              /\ \/ /\ txpc[n] = "fill"
                    /\ conn_send_res'[n] = "Err"
                 \/ /\ txpc[n] \in {"send_to", "send_to_wait"}
                    /\ send_to_res'[n] = "Err"
        /\ tx_ret'[n] # tx_ret[n] => txpc'[n] = "finished" /\ txpc[n] # "finished"
        /\ (send_to_res'[n] = "WouldBlock" /\ send_to_res[n] = "None")
           => txpc'[n] = "write" /\ tx_ret'[n] = tx_ret[n]
        /\ (conn_send_res'[n] = "Done" /\ txpc[n] = "fill")
           => txpc'[n] \in {"send_to", "notified"} /\ tx_ret'[n] = tx_ret[n]
        /\ conn_send_res'[n] = "Err"
           => /\ send_to_res'[n] = "None"
              /\ txpc'[n] = "finished"]_vars

\* C21 witness: the engine's send failed after packets had been accumulated
\* in the cycle; the pump returned WriteError without calling send_to.
C21_Witness ==
    \E n \in Insts :
        /\ txpc[n] = "finished" /\ tx_ret[n] = "WriteError"
        /\ conn_send_res[n] = "Err"
        /\ out[n] # <<>> /\ total_write[n] > 0
        /\ send_to_res[n] = "None"

\* C22: a batch whose send_to failed with WouldBlock is retried, not
\* discarded: the packets a cycle accumulated in out leave the buffer only
\* after the socket has accepted them. Stated as claimed; the code violates
\* it.
C22_WouldBlockIsRetried ==
    [][\A n \in Insts :
        (out[n] # <<>> /\ out'[n] = <<>>) => send_to_res[n] = "Ok"]_vars

\* C23: in every cycle of the TX pump, tx_flushed is fired, and the pump
\* then waits for tx_notify, only if the engine's send returned Done in the
\* fill loop of that same cycle; a cycle whose fill loop ended because
\* total_write reached max_send_burst (the last send returned Ok) neither
\* fires tx_flushed nor waits after its send_to, but goes to the top of
\* 'write. Stated as claimed; the code violates it.
C23_FlushedOnlyAfterDone ==
    [][\A n \in Insts :
        /\ (tx_flushed'[n] /\ ~tx_flushed[n]) => conn_send_res[n] = "Done"
        /\ (/\ send_to_res[n] = "None" /\ send_to_res'[n] = "Ok"
            /\ conn_send_res[n] = "Ok")
           => /\ ~tx_flushed'[n]
              /\ txpc'[n] = "write"]_vars

====
